---- MODULE Spec2Model ----
(***************************************************************************)
(* Model of ocp_calculator.py: the Operation plug-ins (Add, Subtract,      *)
(* Multiply, Divide, Power), the Calculator registry (register, available, *)
(* compute) and the self-check routine _tests.                             *)
(*                                                                         *)
(* Numbers.  The callers of the source pass Python ints.  +, - and * on    *)
(* ints are exact; / and ** with a negative exponent give a float, the     *)
(* double nearest to the exact quotient.  A number is represented by the   *)
(* exact quotient in lowest terms, <<num, den>> with den > 0: for the      *)
(* operand magnitudes used here, distinct quotients round to distinct      *)
(* doubles, and Python's == between an int and a float compares the        *)
(* numerical values, so equality of numbers is equality of quotients.      *)
(* Rounding itself is not modelled.                                        *)
(*                                                                         *)
(* Dictionaries.  A dict is a function from its keys to its values.  The   *)
(* insertion order of the keys is not modelled: list(self._ops) in the     *)
(* ValueError message is represented by the set of keys.  Dict objects     *)
(* live in a heap, so that a copy and an alias are different things.       *)
(***************************************************************************)
EXTENDS Integers, FiniteSets, Sequences, TLC

VARIABLES
    heap,            \* address -> dict object (symbol -> operation)
    snap,            \* the caller's reference to a mapping returned by available(), or NoRef
    call,            \* the last call made
    result,          \* its outcome: a returned value or a raised exception
    before,          \* the heap as it was when the last call was made
    lastRegistered,  \* history: symbol -> the operation passed to the latest register for it ({} if none)
    replaced         \* history: symbol -> the operations a later register for it replaced by another

vars == <<heap, snap, call, result, before, lastRegistered, replaced>>

\* Largest magnitude of an operand of compute under Spec.
MaxOperand == 1
\* Largest magnitude of an operand of compute under ArithSpec.
MaxArith == 2

Operands == (0 - MaxOperand)..MaxOperand
ArithOperands == (0 - MaxArith)..MaxArith

-----------------------------------------------------------------------------
(* Numbers *)

Abs(n) == IF n < 0 THEN 0 - n ELSE n

RECURSIVE GCD(_, _)
GCD(m, n) == IF n = 0 THEN m ELSE GCD(n, m % n)

\* The quotient n / d (d # 0) in lowest terms with a positive denominator.
Frac(n, d) ==
    LET g == GCD(Abs(n), Abs(d))
        s == IF d < 0 THEN 0 - 1 ELSE 1
    IN  <<(s * n) \div g, (s * d) \div g>>

Num(n) == <<n, 1>>

RECURSIVE IntPow(_, _)
IntPow(a, n) == IF n = 0 THEN 1 ELSE a * IntPow(a, n - 1)

-----------------------------------------------------------------------------
(* Outcomes of a call *)

Return(v) == [kind |-> "return", value |-> v]
ReturnNone == [kind |-> "return", value |-> "None"]
ZeroDivisionError == [kind |-> "raise", exc |-> "ZeroDivisionError"]
AssertionError == [kind |-> "raise", exc |-> "AssertionError"]
\* ValueError(f"Operacion no soportada: {op_symbol}. Disponibles: {list(self._ops)}")
ValueError(op_symbol, keys) ==
    [kind |-> "raise", exc |-> "ValueError", symbol |-> op_symbol, available |-> keys]

-----------------------------------------------------------------------------
(* Operations *)

Add == [cls |-> "Add", symbol |-> "+"]
Subtract == [cls |-> "Subtract", symbol |-> "-"]
Multiply == [cls |-> "Multiply", symbol |-> "*"]
Divide == [cls |-> "Divide", symbol |-> "/"]
Power == [cls |-> "Power", symbol |-> "pow"]

\* Two plug-ins of a caller, subclasses of Operation that the source does not
\* hold: one that claims Divide's symbol, one whose symbol is the empty string.
SafeDivide == [cls |-> "SafeDivide", symbol |-> "/"]
First == [cls |-> "First", symbol |-> ""]

Builtins == {Add, Subtract, Multiply, Divide, Power}

AddExecute(a, b) == Return(Num(a + b))
SubtractExecute(a, b) == Return(Num(a - b))
MultiplyExecute(a, b) == Return(Num(a * b))

DivideNoCheck(a, b) == IF b = 0 THEN Return(Num(0)) ELSE Return(Frac(a, b))
DivideChecksDividend(a, b) ==
    IF a = 0 \/ b = 0 THEN ZeroDivisionError ELSE Return(Frac(a, b))
DivideExecute(a, b) ==
    IF b = 0 THEN ZeroDivisionError ELSE Return(Frac(a, b))

\* a ** b on ints: an int for b >= 0 (0 ** 0 is 1), the float 1 / a ** -b for
\* b < 0, and ZeroDivisionError ("0.0 cannot be raised to a negative power")
\* for a == 0 and b < 0.
PowerTimes(a, b) == Return(Num(a * b))
PowerExecute(a, b) ==
    IF b >= 0 THEN Return(Num(IntPow(a, b)))
    ELSE IF a = 0 THEN ZeroDivisionError
    ELSE Return(Frac(1, IntPow(a, 0 - b)))

SafeDivideExecute(a, b) == IF b = 0 THEN Return(Num(0)) ELSE Return(Frac(a, b))
FirstExecute(a, b) == Return(Num(a))

execute(op, a, b) ==
    CASE op.cls = "Add" -> AddExecute(a, b)
      [] op.cls = "Subtract" -> SubtractExecute(a, b)
      [] op.cls = "Multiply" -> MultiplyExecute(a, b)
      [] op.cls = "Divide" -> DivideExecute(a, b)
      [] op.cls = "Power" -> PowerExecute(a, b)
      [] op.cls = "SafeDivide" -> SafeDivideExecute(a, b)
      [] op.cls = "First" -> FirstExecute(a, b)

-----------------------------------------------------------------------------
(* Dict objects and the heap *)

EmptyDict == [k \in {} |-> Add]
SetItem(d, k, v) == [x \in (DOMAIN d) \cup {k} |-> IF x = k THEN v ELSE d[x]]
DelItem(d, k) == [x \in (DOMAIN d) \ {k} |-> d[x]]

NoRef == "None"
\* The address of the dict that Calculator.__init__ binds to self._ops.
ops == "a1"
\* The address of the dict object that dict(...) creates.
NewDict == "a2"

Store(h, addr, d) == [x \in (DOMAIN h) \cup {addr} |-> IF x = addr THEN d ELSE h[x]]

-----------------------------------------------------------------------------
(* Calculator: each method maps the heap to the heap after it and its outcome *)

Calculator__init__ == [x \in {ops} |-> EmptyDict]

registerKeepsFirst(h, operation) ==
    [heap |-> IF operation.symbol \in DOMAIN h[ops] THEN h
              ELSE Store(h, ops, SetItem(h[ops], operation.symbol, operation)),
     out |-> ReturnNone]
registerRejectsEmpty(h, operation) ==
    [heap |-> IF operation.symbol = "" THEN h
              ELSE Store(h, ops, SetItem(h[ops], operation.symbol, operation)),
     out |-> ReturnNone]
registerToggles(h, operation) ==
    [heap |-> IF operation.symbol \in DOMAIN h[ops] /\ h[ops][operation.symbol] = operation
              THEN Store(h, ops, DelItem(h[ops], operation.symbol))
              ELSE Store(h, ops, SetItem(h[ops], operation.symbol, operation)),
     out |-> ReturnNone]
register(h, operation) ==
    [heap |-> Store(h, ops, SetItem(h[ops], operation.symbol, operation)),
     out |-> ReturnNone]

availableAlias(h) == [heap |-> h, out |-> Return(ops)]
available(h) == [heap |-> Store(h, NewDict, h[ops]), out |-> Return(NewDict)]

computeSwapped(h, a, op_symbol, b) ==
    [heap |-> h,
     out |-> IF op_symbol \notin DOMAIN h[ops]
             THEN ValueError(op_symbol, DOMAIN h[ops])
             ELSE execute(h[ops][op_symbol], b, a)]
computeChecksOperandsFirst(h, a, op_symbol, b) ==
    [heap |-> h,
     out |-> IF b = 0 /\ op_symbol = "/" THEN ZeroDivisionError
             ELSE IF op_symbol \notin DOMAIN h[ops]
             THEN ValueError(op_symbol, DOMAIN h[ops])
             ELSE execute(h[ops][op_symbol], a, b)]
computePops(h, a, op_symbol, b) ==
    [heap |-> IF op_symbol \in DOMAIN h[ops]
              THEN Store(h, ops, DelItem(h[ops], op_symbol)) ELSE h,
     out |-> IF op_symbol \notin DOMAIN h[ops]
             THEN ValueError(op_symbol, DOMAIN h[ops])
             ELSE execute(h[ops][op_symbol], a, b)]
compute(h, a, op_symbol, b) ==
    [heap |-> h,
     out |-> IF op_symbol \notin DOMAIN h[ops]
             THEN ValueError(op_symbol, DOMAIN h[ops])
             ELSE execute(h[ops][op_symbol], a, b)]

-----------------------------------------------------------------------------
(* _tests: its own Calculator, the five registrations, then the assertions in  *)
(* order.  An assert fails with AssertionError; an exception that no except    *)
(* clause names leaves _tests as it is.                                        *)

TestsCalc ==
    register(register(register(register(register(
        Calculator__init__, Add).heap, Subtract).heap, Multiply).heap, Divide).heap,
        Power).heap

\* assert calc.compute(a, s, b) == expected; then the rest
AssertEq(a, s, b, expected, rest) ==
    LET r == compute(TestsCalc, a, s, b).out
    IN  IF r.kind = "raise" THEN r
        ELSE IF r.value # Num(expected) THEN AssertionError
        ELSE rest

\* try: calc.compute(a, s, b); raise AssertionError(...)  except exc: pass; then the rest
AssertRaises(a, s, b, exc, rest) ==
    LET r == compute(TestsCalc, a, s, b).out
    IN  IF r.kind = "return" THEN AssertionError
        ELSE IF r.exc # exc THEN r
        ELSE rest

PruebasOK == [kind |-> "return", value |-> "None", printed |-> "Pruebas OK"]

_tests ==
    AssertEq(2, "+", 3, 5,
    AssertEq(10, "-", 4, 6,
    AssertEq(6, "*", 7, 42,
    AssertEq(9, "/", 3, 3,
    AssertEq(2, "pow", 5, 32,
    AssertRaises(1, "/", 0, "ZeroDivisionError",
    AssertRaises(1, "%", 2, "ValueError",
    PruebasOK)))))))

-----------------------------------------------------------------------------
(* The state machine *)

NeverRegistered == [s \in {"+", "-", "*", "/", "pow", "", "%"} |-> {}]

Init ==
    /\ heap = Calculator__init__
    /\ snap = NoRef
    /\ call = [name |-> "__init__"]
    /\ result = ReturnNone
    /\ before = Calculator__init__
    /\ lastRegistered = NeverRegistered
    /\ replaced = NeverRegistered

\* calc.register(operation)
Register(operation) ==
    LET r == register(heap, operation)
    IN  /\ heap' = r.heap
        /\ result' = r.out
        /\ call' = [name |-> "register", operation |-> operation]
        /\ before' = heap
        /\ lastRegistered' = [lastRegistered EXCEPT ![operation.symbol] = {operation}]
        /\ replaced' = [replaced EXCEPT ![operation.symbol] =
                            @ \cup (lastRegistered[operation.symbol] \ {operation})]
        /\ UNCHANGED snap

\* snapshot = calc.available()
Available ==
    LET r == available(heap)
    IN  /\ heap' = r.heap
        /\ result' = r.out
        /\ snap' = r.out.value
        /\ call' = [name |-> "available"]
        /\ before' = heap
        /\ UNCHANGED <<lastRegistered, replaced>>

\* calc.compute(a, op_symbol, b)
Compute(a, op_symbol, b) ==
    LET r == compute(heap, a, op_symbol, b)
    IN  /\ heap' = r.heap
        /\ result' = r.out
        /\ call' = [name |-> "compute", a |-> a, op_symbol |-> op_symbol, b |-> b]
        /\ before' = heap
        /\ UNCHANGED <<snap, lastRegistered, replaced>>

\* The caller writes to the mapping it got from available(): snapshot[symbol] = operation
SnapshotSetItem(operation) ==
    /\ snap # NoRef
    /\ heap' = Store(heap, snap, SetItem(heap[snap], operation.symbol, operation))
    /\ result' = ReturnNone
    /\ call' = [name |-> "snapshot.__setitem__", operation |-> operation]
    /\ before' = heap
    /\ UNCHANGED <<snap, lastRegistered, replaced>>

\* del snapshot[key]
SnapshotDelItem(key) ==
    /\ snap # NoRef
    /\ key \in DOMAIN heap[snap]
    /\ heap' = Store(heap, snap, DelItem(heap[snap], key))
    /\ result' = ReturnNone
    /\ call' = [name |-> "snapshot.__delitem__", key |-> key]
    /\ before' = heap
    /\ UNCHANGED <<snap, lastRegistered, replaced>>

\* _tests()
RunTests ==
    /\ result' = _tests
    /\ call' = [name |-> "_tests"]
    /\ before' = heap
    /\ UNCHANGED <<heap, snap, lastRegistered, replaced>>

\* Spec: the whole interface of Calculator and a caller that keeps and edits the
\* mapping available() returned, over four operations and four symbols.
Operations == {Add, Divide, SafeDivide, First}
Symbols == {"+", "/", "", "%"}

Next ==
    \/ \E operation \in Operations : Register(operation)
    \/ Available
    \/ \E a \in Operands, s \in Symbols, b \in Operands : Compute(a, s, b)
    \/ \E operation \in Operations : SnapshotSetItem(operation)
    \/ \E key \in Symbols : SnapshotDelItem(key)

Spec == Init /\ [][Next]_vars

\* ArithSpec: register and compute over the five built-in operations and one
\* plug-in that replaces Divide, with a wider range of operands, and _tests.
ArithOperations == Builtins \cup {SafeDivide}
ArithSymbols == {"+", "-", "*", "/", "pow", "%"}

ArithNext ==
    \/ \E operation \in ArithOperations : Register(operation)
    \/ \E a \in ArithOperands, s \in ArithSymbols, b \in ArithOperands : Compute(a, s, b)
    \/ RunTests

ArithSpec == Init /\ [][ArithNext]_vars

-----------------------------------------------------------------------------
(* Properties *)

IsCompute == call.name = "compute"
IsRegister == call.name = "register"
AllSymbols == DOMAIN lastRegistered

\* The five built-in operations are bound, each to its own symbol.
AllBuiltinsBound(d) ==
    \A op \in Builtins : op.symbol \in DOMAIN d /\ d[op.symbol] = op

\* v is the number n / d: a quotient in lowest terms with a positive denominator.
IsQuotient(v, n, d) ==
    /\ v[2] > 0
    /\ v[1] * d = n * v[2]
    /\ \A k \in 2..v[2] : ~(v[1] % k = 0 /\ v[2] % k = 0)

\* v is a raised to the power b (b >= 0, or a # 0).
IsPower(v, a, b) ==
    LET n == Abs(b)
        p[i \in 0..n] == IF i = 0 THEN 1 ELSE a * p[i - 1]
    IN  IF b >= 0 THEN v = <<p[n], 1>> ELSE IsQuotient(v, 1, p[n])

\* C1: a compute with a symbol that is bound when the call is made has exactly
\* the outcome of the bound operation's execute on the same operands, in the
\* same order: the same value, or the same failure.
C1_ComputeDelegates ==
    (IsCompute /\ call.op_symbol \in DOMAIN before[ops])
        => result = execute(before[ops][call.op_symbol], call.a, call.b)

\* C1 witness: Divide's failure comes out of compute unchanged.
C1_Witness ==
    /\ IsCompute
    /\ call.op_symbol = "/" /\ call.b = 0 /\ call.a = 1
    /\ "/" \in DOMAIN before[ops] /\ before[ops]["/"] = Divide
    /\ result = ZeroDivisionError

\* C2: last write wins. A symbol is bound exactly when some register named it,
\* it is bound to the operation of the latest such register, and a compute
\* with the symbol has the outcome of that operation, whatever was bound
\* before.
C2_LastWriteWins ==
    \A s \in AllSymbols :
        /\ lastRegistered[s] = {} => s \notin DOMAIN heap[ops]
        /\ \A op \in lastRegistered[s] :
              /\ s \in DOMAIN heap[ops]
              /\ heap[ops][s] = op
              /\ (IsCompute /\ call.op_symbol = s) => result = execute(op, call.a, call.b)

\* C2 witness: Divide was registered, then SafeDivide under the same symbol;
\* a division by zero now returns SafeDivide's 0 where Divide would fail.
C2_Witness ==
    /\ IsCompute
    /\ call.op_symbol = "/" /\ call.b = 0
    /\ lastRegistered["/"] = {SafeDivide}
    /\ Divide \in replaced["/"]
    /\ result = Return(Num(0))

\* What the registry holds is what the register calls made it, nothing else.
RegistryIsLastRegistered ==
    /\ DOMAIN heap[ops] = {s \in AllSymbols : lastRegistered[s] # {}}
    /\ \A s \in DOMAIN heap[ops] : lastRegistered[s] = {heap[ops][s]}

\* C3: the mapping available() returns is the registry's contents at the call,
\* in an object of its own; a later register leaves it as it was, and a
\* write to it or a deletion from it leaves the registry as it was, so that
\* the registry is always what the register calls made it.
C3_SnapshotIsolation ==
    /\ call.name = "available" =>
          /\ result = Return(snap)
          /\ snap \in DOMAIN heap
          /\ heap[snap] = before[ops]
          /\ heap[ops] = before[ops]
    /\ (IsRegister /\ snap # NoRef) => heap[snap] = before[snap]
    /\ call.name \in {"snapshot.__setitem__", "snapshot.__delitem__"} =>
          heap[ops] = before[ops]
    /\ RegistryIsLastRegistered

\* C3 witness: a register after the caller edited its snapshot; the snapshot
\* holds a key the registry lacks and lacks the key just registered.
C3_Witness ==
    /\ IsRegister
    /\ snap # NoRef
    /\ call.operation.symbol \notin DOMAIN heap[snap]
    /\ \E k \in DOMAIN heap[snap] : k \notin DOMAIN heap[ops]

\* C4: a compute with a symbol that is not bound fails with ValueError, for
\* all operands, and the error carries the symbol asked for and exactly the
\* symbols registered so far.
C4_UnsupportedOperation ==
    (IsCompute /\ call.op_symbol \notin DOMAIN before[ops])
        => /\ result.kind = "raise"
           /\ result.exc = "ValueError"
           /\ result.symbol = call.op_symbol
           /\ result.available = {s \in AllSymbols : lastRegistered[s] # {}}

\* C4 witness: "/" is not bound, other symbols are, and the divisor is 0.
C4_Witness ==
    /\ IsCompute
    /\ call.op_symbol = "/" /\ call.b = 0
    /\ result.kind = "raise" /\ result.exc = "ValueError"
    /\ result.available = {"+", ""}

\* C5: with Divide bound to "/", a compute with "/" fails with
\* ZeroDivisionError when b is 0, whatever a is, and returns the quotient
\* a / b when b is not 0.
C5_Division ==
    (/\ IsCompute
     /\ call.op_symbol = "/"
     /\ "/" \in DOMAIN before[ops]
     /\ before[ops]["/"] = Divide)
        => IF call.b = 0
           THEN result = ZeroDivisionError
           ELSE result.kind = "return" /\ IsQuotient(result.value, call.a, call.b)

\* C5 witness: 0 / 0 fails too.
C5_Witness ==
    /\ IsCompute
    /\ call.op_symbol = "/" /\ call.a = 0 /\ call.b = 0
    /\ "/" \in DOMAIN before[ops] /\ before[ops]["/"] = Divide
    /\ result = ZeroDivisionError

\* The five equalities that _tests asserts, on the calculator of heap h.
FiveFacts(h) ==
    /\ compute(h, 2, "+", 3).out = Return(<<5, 1>>)
    /\ compute(h, 10, "-", 4).out = Return(<<6, 1>>)
    /\ compute(h, 6, "*", 7).out = Return(<<42, 1>>)
    /\ compute(h, 9, "/", 3).out = Return(<<3, 1>>)
    /\ compute(h, 2, "pow", 5).out = Return(<<32, 1>>)

\* The value a compute with a built-in symbol returns.
ReturnsArithmetic(defined) ==
    /\ call.op_symbol = "+" => result = Return(<<call.a + call.b, 1>>)
    /\ call.op_symbol = "-" => result = Return(<<call.a - call.b, 1>>)
    /\ call.op_symbol = "*" => result = Return(<<call.a * call.b, 1>>)
    /\ (call.op_symbol = "/" /\ call.b # 0) =>
          result.kind = "return" /\ IsQuotient(result.value, call.a, call.b)
    /\ (call.op_symbol = "pow" /\ defined) =>
          result.kind = "return" /\ IsPower(result.value, call.a, call.b)

\* C6 as stated: with the five built-in operations bound, compute returns the
\* sum, difference, product, quotient (b # 0) and power for all operands.
C6_AsStated ==
    (IsCompute /\ AllBuiltinsBound(before[ops])) => ReturnsArithmetic(TRUE)

\* C6, amended: with the five built-in operations bound, in whatever order
\* they were registered, compute returns the sum, difference, product,
\* quotient (b # 0) and power (unless a is 0 and b negative, where it fails
\* with ZeroDivisionError); the five assertions of _tests hold, and _tests
\* ends with its success message.
C6_BuiltinArithmetic ==
    /\ (IsCompute /\ AllBuiltinsBound(before[ops])) =>
          /\ ReturnsArithmetic(~(call.a = 0 /\ call.b < 0))
          /\ (call.op_symbol = "pow" /\ call.a = 0 /\ call.b < 0) =>
                result = ZeroDivisionError
    /\ AllBuiltinsBound(heap[ops]) => FiveFacts(heap)
    /\ call.name = "_tests" => result = PruebasOK

\* C6 witness: 2 pow -2 is a quarter.
C6_Witness ==
    /\ IsCompute /\ AllBuiltinsBound(before[ops])
    /\ call.op_symbol = "pow" /\ call.a = 2 /\ call.b = 0 - 2
    /\ result = Return(<<1, 4>>)

\* The failures of compute, given when it fails with ZeroDivisionError.
FailsExactlyWhen(zeroDivision) ==
    /\ (result.kind = "raise" /\ result.exc = "ValueError")
          <=> call.op_symbol \notin DOMAIN before[ops]
    /\ result = ZeroDivisionError <=> zeroDivision
    /\ result.kind = "return"
          <=> (call.op_symbol \in DOMAIN before[ops] /\ ~zeroDivision)

\* C7 as stated: with the five built-in operations bound, compute fails with
\* ValueError exactly when the symbol is not bound, with ZeroDivisionError
\* exactly when the symbol is "/" and b is 0, and returns otherwise.
C7_AsStated ==
    (IsCompute /\ AllBuiltinsBound(before[ops]))
        => FailsExactlyWhen(call.op_symbol = "/" /\ call.b = 0)

\* C7, amended: with the five built-in operations bound, compute fails with
\* ValueError exactly when the symbol is not bound, with ZeroDivisionError
\* exactly when the symbol is "/" and b is 0 or the symbol is "pow", a is 0
\* and b is negative, and returns a value in every other case.
C7_ErrorKinds ==
    (IsCompute /\ AllBuiltinsBound(before[ops]))
        => FailsExactlyWhen(\/ call.op_symbol = "/" /\ call.b = 0
                            \/ call.op_symbol = "pow" /\ call.a = 0 /\ call.b < 0)

\* C7 witness: 0 pow -1 fails with ZeroDivisionError.
C7_Witness ==
    /\ IsCompute /\ AllBuiltinsBound(before[ops])
    /\ call.op_symbol = "pow" /\ call.a = 0 /\ call.b = 0 - 1
    /\ result = ZeroDivisionError

\* C8: register returns None, never fails, and the registry after it is the
\* registry before it with the operation bound to its symbol: that key is
\* present, every other key is kept with its binding, and no key is added.
C8_RegisterPostcondition ==
    IsRegister =>
        LET s == call.operation.symbol
        IN  /\ result = ReturnNone
            /\ DOMAIN heap[ops] = (DOMAIN before[ops]) \cup {s}
            /\ heap[ops][s] = call.operation
            /\ \A k \in (DOMAIN before[ops]) \ {s} : heap[ops][k] = before[ops][k]

\* C8 witness: an operation with the empty symbol is registered over an
\* earlier binding of the empty symbol, beside other bindings.
C8_Witness ==
    /\ IsRegister
    /\ call.operation = First
    /\ "" \in DOMAIN before[ops]
    /\ heap[ops][""] = First
    /\ {"+", "/"} \subseteq DOMAIN heap[ops]

\* C9: a register of the operation that is already bound to its symbol (the
\* second of two registers in a row) leaves the heap as the first left it,
\* so every compute and available has the outcome it had.
C9_RegisterIdempotent ==
    (/\ IsRegister
     /\ call.operation.symbol \in DOMAIN before[ops]
     /\ before[ops][call.operation.symbol] = call.operation)
        => /\ heap = before
           /\ \A a \in Operands, s \in AllSymbols, b \in Operands :
                 compute(heap, a, s, b).out = compute(before, a, s, b).out
           /\ available(heap).heap[NewDict] = available(before).heap[NewDict]

\* C9 witness: SafeDivide is registered when it is bound already.
C9_Witness ==
    /\ IsRegister
    /\ call.operation = SafeDivide
    /\ "/" \in DOMAIN before[ops] /\ before[ops]["/"] = SafeDivide
    /\ heap[ops]["/"] = SafeDivide

\* C10: the registry is empty after construction and no call but register
\* changes it: a compute, whatever its outcome, and an available leave it as
\* it was, and the same compute made again has the same outcome.
C10_OnlyRegisterMutates ==
    /\ call.name = "__init__" => heap[ops] = EmptyDict
    /\ ~IsRegister => heap[ops] = before[ops]
    /\ IsCompute => compute(heap, call.a, call.op_symbol, call.b).out = result

\* C10 witness: a compute that failed with ZeroDivisionError on a registry
\* of three bindings.
C10_Witness ==
    /\ IsCompute
    /\ result = ZeroDivisionError
    /\ DOMAIN heap[ops] = {"+", "/", ""}

====
